---- MODULE Spec2Model ----
(***************************************************************************)
(* A state-machine model of the static-length HMC sampler                  *)
(* (stan/mcmc/hmc/static/base_static_hmc.hpp) and of the ADVI engine       *)
(* (stan/variational/advi.hpp).                                            *)
(*                                                                         *)
(* Representation of C++ values                                            *)
(*  - a double that can be non-finite is a record [k, v]: k = "fin" with   *)
(*    an integer v, k = "inf" with v = 1 or -1, or k = "nan" with v = 0;   *)
(*  - energies (Hamiltonians, potentials, log densities) are integers of   *)
(*    energy units; probabilities are fixed-point numbers with             *)
(*    denominator Scale, and exp is the base-2 exponential on that grid    *)
(*    (monotone, exp(0) = 1, underflowing to 0 like std::exp);             *)
(*  - step sizes and integration times are floating-point numbers [m, x]  *)
(*    standing for m * 2^x with a significand of MantBits bits; products   *)
(*    and quotients are rounded to nearest, ties to even, as double        *)
(*    arithmetic rounds them, and a quotient that does not fit a C++ int   *)
(*    can be told from one that does;                                      *)
(*  - eta values are hundredths; ELBO values are integers; relative ELBO   *)
(*    differences and tolerances are multiples of 1 / DeltaDen.            *)
(* Variables marked "history" record what a call did and are not program   *)
(* state.                                                                  *)
(***************************************************************************)
EXTENDS Integers, Sequences, FiniteSets, TLC

VARIABLES
  nom_epsilon_,   \* base_hmc::nom_epsilon_, a step size [m, x]
  T_,             \* base_static_hmc::T_, an integration time [m, x]
  L_,             \* base_static_hmc::L_, an int
  cfg_prev,       \* history: <<nom_epsilon_, T_, L_>> before the last setter call
  last_call       \* history: the last configuration call, its arguments and outcome

cfgVars == <<nom_epsilon_, T_, L_, cfg_prev>>

VARIABLES
  pc_hmc,         \* position in transition: "idle", "evolve" or "done"
  cur_sample,     \* the sample the caller passes as init_sample
  z,              \* base_hmc::z_, the phase-space point [q, p, V]
  z_init,         \* the local snapshot z_init
  H0,             \* the local H0
  i_leap,         \* the loop counter i of the leapfrog loop
  h_raw,          \* history: H(z_) at the end of the trajectory, before the NaN test
  u_draw,         \* history: the value rand_uniform_() returned ("none" if not called)
  z_prop,         \* history: z_ at the end of the trajectory, before any rollback
  rejected,       \* history: the rollback of line 51 was executed
  ret_sample      \* the sample transition returned

transVars ==
  <<pc_hmc, cur_sample, z, z_init, H0, i_leap, h_raw, u_draw, z_prop, rejected,
    ret_sample>>

VARIABLES
  advi_state,            \* "none", "constructed" or "ctor_error"
  n_monte_carlo_grad_,
  n_monte_carlo_elbo_,
  eval_elbo_,
  n_posterior_samples_,
  print_stream_          \* TRUE iff a print stream was supplied (non-null)

adviVars ==
  <<advi_state, n_monte_carlo_grad_, n_monte_carlo_elbo_, eval_elbo_,
    n_posterior_samples_, print_stream_>>

VARIABLES
  pc_elbo,             \* calc_ELBO: "idle", "loop", "returned" or "failed"
  entropy_q,           \* variational.entropy() of the family passed in
  i_mc,                \* the local i
  n_monte_carlo_drop,  \* the local n_monte_carlo_drop
  elbo_acc,            \* the local elbo while it accumulates
  elbo_ret,            \* the value returned, in units of 1 / n_monte_carlo_elbo_
  n_draws,             \* history: draws made in this call
  valid_energies,      \* history: the energies accumulated in this call
  n_info_msgs          \* history: informational messages written in this call

elboVars ==
  <<pc_elbo, entropy_q, i_mc, n_monte_carlo_drop, elbo_acc, elbo_ret, n_draws,
    valid_energies, n_info_msgs>>

VARIABLES
  pc_tune,         \* tune: "idle", "loop", "returned" or "thrown"
  eta,             \* the local eta (hundredths)
  eta_sequence,    \* the queue eta_sequence
  elbo_init,
  elbo_best,
  eta_best,        \* -1 while uninitialized
  variational,     \* the family: gradient updates applied since Q(cont_params_)
  params_prop,     \* the preconditioner: accumulations since it was zero
  tune_ret,        \* the value returned
  tries            \* history: one record per step size tried

tuneVars ==
  <<pc_tune, eta, eta_sequence, elbo_init, elbo_best, eta_best, variational,
    params_prop, tune_ret, tries>>

VARIABLES
  pc_sga,              \* "idle", "loop", "returned", "thrown", "crashed"
  sga_eta,             \* argument eta (hundredths)
  tol_rel_obj,         \* argument tol_rel_obj (units of 1 / DeltaDen)
  max_iterations,      \* argument max_iterations
  iter_main,
  sga_elbo,            \* local elbo
  sga_elbo_best,       \* local elbo_best
  sga_elbo_prev,       \* local elbo_prev
  delta_elbo,          \* units of 1 / DeltaDen
  delta_elbo_ave,      \* [sum, n]: the quotient sum / n, in units of 1 / DeltaDen
  delta_elbo_med,
  cb_size,
  elbo_diff,           \* the circular buffer, oldest first
  do_more_iterations,
  n_updates,           \* history: gradient updates applied in this call
  n_evals,             \* history: ELBO evaluations made in this call
  msg_nonconv          \* history: non-convergence messages written in this call

sgaVars ==
  <<pc_sga, sga_eta, tol_rel_obj, max_iterations, iter_main, sga_elbo,
    sga_elbo_best, sga_elbo_prev, delta_elbo, delta_elbo_ave, delta_elbo_med,
    cb_size, elbo_diff, do_more_iterations, n_updates, n_evals, msg_nonconv>>

VARIABLES
  pc_crit,           \* compute_criterion: "idle" or "done"
  crit_start,        \* argument start: a point [p]
  crit_finish,       \* argument finish: a point [p]
  crit_rho,          \* argument rho
  crit_ret,          \* the value returned
  crit_ret_swapped   \* history: the value returned for (finish, start, rho)

nutsVars ==
  <<pc_crit, crit_start, crit_finish, crit_rho, crit_ret, crit_ret_swapped>>

vars ==
  <<cfgVars, last_call, transVars, adviVars, elboVars, tuneVars, sgaVars,
    nutsVars>>

Max(a, b) == IF a >= b THEN a ELSE b

Min(a, b) == IF a <= b THEN a ELSE b

Abs(a) == IF a < 0 THEN -a ELSE a

RECURSIVE Pow2(_)
Pow2(n) == IF n <= 0 THEN 1 ELSE 2 * Pow2(n - 1)

RECURSIVE SumSeq(_)
SumSeq(s) == IF s = <<>> THEN 0 ELSE Head(s) + SumSeq(Tail(s))

INT_MAX == 2147483647

INT_MIN == -2147483647 - 1

\* std::numeric_limits<double>::max(), larger than every value of the model.
DBL_MAX == 1000000

(***************************************************************************)
(* Doubles that can be non-finite                                          *)
(***************************************************************************)

Fin(n) == [k |-> "fin", v |-> n]

PInf == [k |-> "inf", v |-> 1]

NInf == [k |-> "inf", v |-> -1]

NaN == [k |-> "nan", v |-> 0]

IsNaN(a) == a.k = "nan"

IsFinite(a) == a.k = "fin"

\* a + b in IEEE arithmetic.
AddD(a, b) ==
  IF IsNaN(a) \/ IsNaN(b) THEN NaN
  ELSE IF a.k = "inf" /\ b.k = "inf" THEN (IF a.v = b.v THEN a ELSE NaN)
  ELSE IF a.k = "inf" THEN a
  ELSE IF b.k = "inf" THEN b
  ELSE Fin(a.v + b.v)

\* -a
NegD(a) ==
  IF IsNaN(a) THEN NaN ELSE IF a.k = "inf" THEN [k |-> "inf", v |-> -a.v]
  ELSE Fin(-a.v)

\* a - b
SubD(a, b) == AddD(a, NegD(b))

\* a < b; every comparison with NaN is false.
LtD(a, b) ==
  IF IsNaN(a) \/ IsNaN(b) THEN FALSE
  ELSE IF a.k = "inf" THEN a.v = -1 /\ ~(b.k = "inf" /\ b.v = -1)
  ELSE IF b.k = "inf" THEN b.v = 1
  ELSE a.v < b.v

\* a > b
GtD(a, b) == LtD(b, a)

(***************************************************************************)
(* Static HMC: configuration (T_, L_, nom_epsilon_) and its setters        *)
(***************************************************************************)

\* Width of the significand of the floating-point format that stands for
\* double: a value is m * 2^x with 2^(MantBits-1) <= |m| < 2^MantBits, or 0.
MantBits == 4

\* Largest trajectory length offered to set_nominal_stepsize_and_L.
MaxLArg == 3

\* Width of int.
IntBits == 32

\* Exponent of the large time offered to the setters: 2^(MantBits-1+BigExp).
BigExp == 40

\* A step size or time m * 2^x.
Sz(m, x) == [m |-> m, x |-> x]

NoSz == Sz(0, 0)

SzPos(s) == s.m > 0

\* The number of bits of n > 0.
RECURSIVE BitLen(_)
BitLen(n) == IF n = 0 THEN 0 ELSE 1 + BitLen(n \div 2)

\* n * 2^x (n > 0) rounded to the format, ties to even, as every double
\* operation rounds its exact result.
RoundSz(n, x) ==
  LET k == BitLen(n) - MantBits
  IN IF k <= 0 THEN Sz(n * Pow2(-k), x + k)
     ELSE LET q    == n \div Pow2(k)
              r    == n % Pow2(k)
              half == Pow2(k - 1)
              up   == r > half \/ (r = half /\ q % 2 = 1)
              q1   == IF up THEN q + 1 ELSE q
          IN IF q1 = Pow2(MantBits)
               THEN Sz(Pow2(MantBits - 1), x + k + 1)
               ELSE Sz(q1, x + k)

\* this->nom_epsilon_ * L_ for positive operands: the rounded product.
SzMulInt(s, l) == RoundSz(s.m * l, s.x)

\* T_ / this->nom_epsilon_ for positive operands: the rounded quotient,
\* from MantBits + 2 quotient bits and a sticky bit for the remainder.
SzDiv(t, e) ==
  LET n  == t.m * Pow2(MantBits + 1)
      q  == n \div e.m
      st == IF n % e.m = 0 THEN 0 ELSE 1
  IN RoundSz(2 * q + st, t.x - e.x - MantBits - 2)

\* Does the double d >= 0 truncate to a value of int?
FitsInt(d) == d.x + MantBits < IntBits

\* The truncation of a double d >= 0 that fits int.
TruncSz(d) ==
  IF d.x >= 0 THEN d.m * Pow2(d.x)
  ELSE IF -d.x >= MantBits THEN 0
  ELSE d.m \div Pow2(-d.x)

QuotFitsInt(t, e) == FitsInt(SzDiv(t, e))

\* floor(T_ / nom_epsilon_) as double arithmetic gives it, when it fits int.
FloorQuot(t, e) == TruncSz(SzDiv(t, e))

\* static_cast<int>(T_ / nom_epsilon_): the truncated quotient, or, when the
\* quotient is out of the range of int, undefined behaviour: the value an
\* x86 build (INT_MIN) or a saturating build (INT_MAX) produces.
CastQuotToInt(t, e) ==
  IF QuotFitsInt(t, e) THEN {FloorQuot(t, e)} ELSE {INT_MIN, INT_MAX}

\* L_ = L_ < 1 ? 1 : L_
ClampL(l) == IF l < 1 THEN 1 ELSE l

\* update_L_: the values L_ can end with.
update_L_(t, e) == {ClampL(l) : l \in CastQuotToInt(t, e)}

\* 1.0, the T_(1) of the constructor.
SzOne == Sz(Pow2(MantBits - 1), 1 - MantBits)

\* 0.3125, the double of the format next to 0.3.
SzThreeTenths == Sz(Pow2(MantBits - 1) + Pow2(MantBits - 3), -1 - MantBits)

\* The largest double below 1 but one: its products by 3 are rounded.
SzBelowOne == Sz(Pow2(MantBits) - 2, -MantBits)

SzTwo == Sz(Pow2(MantBits - 1), 2 - MantBits)

\* Arguments offered to the setters: -1.0, 0, 0.3125, a value just below 1,
\* 1.0, 2.0 and the large time 2^(MantBits-1+BigExp).
SzArgs ==
  {Sz(-SzOne.m, SzOne.x), Sz(0, 0), SzThreeTenths, SzBelowOne, SzOne, SzTwo,
   Sz(Pow2(MantBits - 1), BigExp)}

LArgs == -1 .. MaxLArg

\* The record of a configuration call: bad = an argument the call must
\* reject was non-positive, err = the call raised an error.
Call(op, e, t, l, bad, err) ==
  [op |-> op, e |-> e, t |-> t, l |-> l, bad |-> bad, err |-> err]

\* A setter returns normally whatever its arguments: it raises no error.
SetterCall(op, e, t, l, bad) == Call(op, e, t, l, bad, FALSE)

SetterOps ==
  {"set_nominal_stepsize_and_T", "set_nominal_stepsize_and_L", "set_T",
   "set_nominal_stepsize"}

\* base_static_hmc(): T_(1), update_L_(); nom_epsilon_ comes from base_hmc,
\* whose constructor is not part of the sources: any positive default.
InitCfg ==
  /\ nom_epsilon_ \in {s \in SzArgs : SzPos(s) /\ s.x < 0}
  /\ T_ = SzOne
  /\ L_ \in update_L_(T_, nom_epsilon_)
  /\ cfg_prev = <<nom_epsilon_, T_, L_>>
  /\ last_call = SetterCall("base_static_hmc", NoSz, NoSz, 0, FALSE)

set_nominal_stepsize_and_T(e, t) ==
  /\ pc_hmc # "evolve"
  /\ cfg_prev' = <<nom_epsilon_, T_, L_>>
  /\ last_call' = SetterCall("set_nominal_stepsize_and_T", e, t, 0,
                             ~SzPos(e) \/ ~SzPos(t))
  /\ IF SzPos(e) /\ SzPos(t)
       THEN /\ nom_epsilon_' = e
            /\ T_' = t
            /\ L_' \in update_L_(t, e)
       ELSE UNCHANGED <<nom_epsilon_, T_, L_>>
  /\ UNCHANGED <<transVars, adviVars, elboVars, tuneVars, sgaVars, nutsVars>>

set_nominal_stepsize_and_L(e, l) ==
  /\ pc_hmc # "evolve"
  /\ cfg_prev' = <<nom_epsilon_, T_, L_>>
  /\ last_call' = SetterCall("set_nominal_stepsize_and_L", e, NoSz, l,
                             ~SzPos(e) \/ l <= 0)
  /\ IF SzPos(e) /\ l > 0
       THEN /\ nom_epsilon_' = e
            /\ L_' = l
            /\ T_' = SzMulInt(e, l)
       ELSE UNCHANGED <<nom_epsilon_, T_, L_>>
  /\ UNCHANGED <<transVars, adviVars, elboVars, tuneVars, sgaVars, nutsVars>>

set_T(t) ==
  /\ pc_hmc # "evolve"
  /\ cfg_prev' = <<nom_epsilon_, T_, L_>>
  /\ last_call' = SetterCall("set_T", NoSz, t, 0, ~SzPos(t))
  /\ IF SzPos(t)
       THEN /\ T_' = t
            /\ L_' \in update_L_(t, nom_epsilon_)
            /\ UNCHANGED nom_epsilon_
       ELSE UNCHANGED <<nom_epsilon_, T_, L_>>
  /\ UNCHANGED <<transVars, adviVars, elboVars, tuneVars, sgaVars, nutsVars>>

set_nominal_stepsize(e) ==
  /\ pc_hmc # "evolve"
  /\ cfg_prev' = <<nom_epsilon_, T_, L_>>
  /\ last_call' = SetterCall("set_nominal_stepsize", e, NoSz, 0, ~SzPos(e))
  /\ IF SzPos(e)
       THEN /\ nom_epsilon_' = e
            /\ L_' \in update_L_(T_, e)
            /\ UNCHANGED T_
       ELSE UNCHANGED <<nom_epsilon_, T_, L_>>
  /\ UNCHANGED <<transVars, adviVars, elboVars, tuneVars, sgaVars, nutsVars>>

(***************************************************************************)
(* Static HMC: transition                                                  *)
(***************************************************************************)

\* Positions 0 .. MaxPos have the finite potential V(q) = q; the two
\* positions after them have V = +infinity and V = NaN.
MaxPos == 2

\* Fixed-point resolution of probabilities: Scale = 2^ProbBits.
ProbBits == 3

Scale == Pow2(ProbBits)

ONE == Fin(Scale)

ZERO == Fin(0)

Positions == 0 .. MaxPos + 2

FinitePositions == 0 .. MaxPos

Momenta == {-2, 0, 2}

\* The model's potential V(q) = -log pi(q) as hamiltonian_.init caches it.
Pot(q) == IF q <= MaxPos THEN Fin(q) ELSE IF q = MaxPos + 1 THEN PInf ELSE NaN

\* Kinetic energy of the unit metric, p.p / 2.
KineticT(p) == (p * p) \div 2

\* hamiltonian_.H(z) = T(z) + V(z)
H(pt) == AddD(Fin(KineticT(pt.p)), pt.V)

\* hamiltonian_.V(z): the potential cached in the point.
V(pt) == pt.V

Point(q, p) == [q |-> q, p |-> p, V |-> Pot(q)]

\* std::exp on the grid: 2^d for a finite d (rounded down, so it underflows
\* to 0), with exp(-inf) = 0, exp(+inf) = +inf and exp(NaN) = NaN.
ExpD(d) ==
  IF IsNaN(d) THEN NaN
  ELSE IF d.k = "inf" THEN (IF d.v = 1 THEN PInf ELSE ZERO)
  ELSE IF d.v >= 0 THEN Fin(Scale * Pow2(d.v))
  ELSE Fin(Scale \div Pow2(-d.v))

\* The values rand_uniform_() returns: k / Scale in [0, 1).
UniformDraws == 0 .. Scale - 1

\* sample(q, log_prob, stat)
Sample(q, lp, stat) == [q |-> q, lp |-> lp, accept |-> stat]

\* if (boost::math::isnan(h)) h = +infinity
NaNToInf(hh) == IF IsNaN(hh) THEN PInf ELSE hh

\* acceptProb = std::exp(H0 - h)
AcceptProb(h0, hh) == ExpD(SubD(h0, NaNToInf(hh)))

\* The test of line 50 once rand_uniform_() has returned u / Scale.
Rejects(ap, u) == LtD(ap, ONE) /\ GtD(Fin(u), ap)

\* this->z_.ps_point::operator=(z_init)
RestoreQOnly(zc, zi) == [zc EXCEPT !.q = zi.q]

Restore(zc, zi) == zi

\* The diagnostic lines transition writes between reading the final
\* Hamiltonian hh and the rollback: lines 45-51 hold no output statement.
TransDiagnosticLines(hh) == 0

\* acceptProb = acceptProb > 1 ? 1 : acceptProb
ClampStat(ap) == IF GtD(ap, ONE) THEN ONE ELSE ap

transOthers ==
  <<cfgVars, last_call, adviVars, elboVars, tuneVars, sgaVars, nutsVars>>

\* transition up to the leapfrog loop: sample_stepsize, seed, sample_p,
\* init, the snapshot z_init and H0.  The caller passes the sample the
\* previous transition returned.
TransBegin ==
  /\ pc_hmc \in {"idle", "done"}
  /\ LET init_sample == IF pc_hmc = "done" THEN ret_sample ELSE cur_sample
     IN /\ cur_sample' = init_sample
        /\ \E p \in Momenta :
             /\ z' = Point(init_sample.q, p)
             /\ z_init' = z'
             /\ z_prop' = z'
             /\ H0' = H(z')
  /\ i_leap' = 0
  /\ h_raw' = ZERO
  /\ u_draw' = -1
  /\ rejected' = FALSE
  /\ pc_hmc' = "evolve"
  /\ UNCHANGED ret_sample
  /\ UNCHANGED transOthers

\* One pass of the leapfrog loop.  The integrator is a collaborator: evolve
\* may move the point anywhere, and the potential follows the position.
TransEvolve ==
  /\ pc_hmc = "evolve"
  /\ i_leap < L_
  /\ \E q \in Positions, p \in Momenta : z' = Point(q, p)
  /\ i_leap' = i_leap + 1
  /\ UNCHANGED <<pc_hmc, cur_sample, z_init, H0, h_raw, u_draw, z_prop,
                 rejected, ret_sample>>
  /\ UNCHANGED transOthers

\* The rest of transition once rand_uniform_() has been asked (u >= 0) or
\* not (u = -1: acceptProb < 1 is false and && does not evaluate it).
TransFinish(u) ==
  LET ap == AcceptProb(H0, H(z))
      rej == u >= 0 /\ Rejects(ap, u)
      z2 == IF rej THEN Restore(z, z_init) ELSE z
  IN /\ h_raw' = H(z)
     /\ u_draw' = u
     /\ z_prop' = z
     /\ rejected' = rej
     /\ z' = z2
     /\ ret_sample' = Sample(z2.q, NegD(V(z2)), ClampStat(ap))
     /\ pc_hmc' = "done"
     /\ UNCHANGED <<cur_sample, z_init, H0, i_leap>>
     /\ UNCHANGED transOthers

TransEnd ==
  /\ pc_hmc = "evolve"
  /\ ~(i_leap < L_)
  /\ IF LtD(AcceptProb(H0, H(z)), ONE)
       THEN \E u \in UniformDraws : TransFinish(u)
       ELSE TransFinish(-1)

(***************************************************************************)
(* ADVI: the constructor                                                   *)
(***************************************************************************)

\* Largest count offered to the constructor.
MaxCount == 2

CountArgs == -1 .. MaxCount

\* The three check_positive calls of the constructor (eval_elbo has none).
AdviCtorOk(g, e, np) == g > 0 /\ e > 0 /\ np > 0

\* No call of stochastic_gradient_ascent has been made on the new object.
SgaFresh ==
  /\ pc_sga' = "idle"
  /\ sga_eta' = 0
  /\ tol_rel_obj' = 0
  /\ max_iterations' = 0
  /\ iter_main' = 0
  /\ sga_elbo' = 0
  /\ sga_elbo_best' = 0
  /\ sga_elbo_prev' = 0
  /\ delta_elbo' = 0
  /\ delta_elbo_ave' = [sum |-> 0, n |-> 1]
  /\ delta_elbo_med' = 0
  /\ cb_size' = 0
  /\ elbo_diff' = <<>>
  /\ do_more_iterations' = FALSE
  /\ n_updates' = 0
  /\ n_evals' = 0
  /\ msg_nonconv' = 0

\* advi::advi.  A failed check throws: no object exists afterwards.
AdviConstruct(g, e, ev, np, ps) ==
  /\ pc_hmc # "evolve"
  /\ last_call' = Call("advi", NoSz, NoSz, 0,
                       g <= 0 \/ e <= 0 \/ ev <= 0 \/ np <= 0,
                       ~AdviCtorOk(g, e, np))
  /\ IF AdviCtorOk(g, e, np)
       THEN /\ advi_state' = "constructed"
            /\ n_monte_carlo_grad_' = g
            /\ n_monte_carlo_elbo_' = e
            /\ eval_elbo_' = ev
            /\ n_posterior_samples_' = np
            /\ print_stream_' = ps
       ELSE /\ advi_state' = "ctor_error"
            /\ n_monte_carlo_grad_' = 0
            /\ n_monte_carlo_elbo_' = 0
            /\ eval_elbo_' = 0
            /\ n_posterior_samples_' = 0
            /\ print_stream_' = FALSE
  /\ SgaFresh
  /\ UNCHANGED <<cfgVars, transVars, elboVars, tuneVars, nutsVars>>

(***************************************************************************)
(* ADVI: calc_ELBO                                                         *)
(***************************************************************************)

\* Largest finite log density a draw evaluates to (and smallest, negated).
MaxEnergy == 1

\* Largest entropy of a family passed to calc_ELBO.
MaxEntropy == 1

Energies == -MaxEnergy .. MaxEnergy

Entropies == 0 .. MaxEntropy

elboOthers ==
  <<cfgVars, last_call, transVars, adviVars, tuneVars, sgaVars, nutsVars>>

\* calc_ELBO up to the loop: elbo = 0, i = 0, n_monte_carlo_drop = 0.
ElboBegin(ent) ==
  /\ advi_state = "constructed"
  /\ pc_elbo # "loop"
  /\ entropy_q' = ent
  /\ i_mc' = 0
  /\ n_monte_carlo_drop' = 0
  /\ elbo_acc' = 0
  /\ elbo_ret' = 0
  /\ n_draws' = 0
  /\ valid_energies' = <<>>
  /\ n_info_msgs' = 0
  /\ pc_elbo' = IF 0 < n_monte_carlo_elbo_ THEN "loop" ELSE "returned"
  /\ UNCHANGED elboOthers

\* elbo /= n_monte_carlo_elbo_; elbo += entropy(): the value returned, as
\* a multiple of 1 / n.
ElboValue(acc, ent, n) == acc + n * ent

\* The drop limit of line 109.
DropLimitHitGt(drop, n) == drop > n

DropLimitHit(drop, n) == drop >= n

\* One pass of the loop in which log_prob returns the finite energy e; the
\* pass that makes i reach n_monte_carlo_elbo_ leaves the loop and returns.
ElboDrawValid(e) ==
  /\ pc_elbo = "loop"
  /\ n_draws' = n_draws + 1
  /\ elbo_acc' = elbo_acc + e
  /\ i_mc' = i_mc + 1
  /\ valid_energies' = Append(valid_energies, e)
  /\ IF i_mc' < n_monte_carlo_elbo_
       THEN /\ pc_elbo' = "loop"
            /\ UNCHANGED elbo_ret
       ELSE /\ pc_elbo' = "returned"
            /\ elbo_ret' = ElboValue(elbo_acc', entropy_q, n_monte_carlo_elbo_)
  /\ UNCHANGED <<entropy_q, n_monte_carlo_drop, n_info_msgs>>
  /\ UNCHANGED elboOthers

\* write_error_msg_: nothing is written without a print stream.
write_error_msg_(stream, n) == IF stream THEN n + 1 ELSE n

\* One pass of the loop in which log_prob throws or check_finite fails.
ElboDrawInvalid ==
  /\ pc_elbo = "loop"
  /\ n_draws' = n_draws + 1
  /\ n_info_msgs' = write_error_msg_(print_stream_, n_info_msgs)
  /\ n_monte_carlo_drop' = n_monte_carlo_drop + 1
  /\ pc_elbo' = IF DropLimitHit(n_monte_carlo_drop', n_monte_carlo_elbo_)
                  THEN "failed" ELSE "loop"
  /\ UNCHANGED <<entropy_q, i_mc, elbo_acc, elbo_ret, valid_energies>>
  /\ UNCHANGED elboOthers

(***************************************************************************)
(* ADVI: tune                                                              *)
(***************************************************************************)

\* The eta values of eta_sequence, in hundredths.
EtaSeq == <<100, 50, 10, 5, 1>>

tuning_iterations == 50

\* ELBO values seen while tuning are -MaxTuneElbo .. MaxTuneElbo.
MaxTuneElbo == 1

TuneElboVals == -MaxTuneElbo .. MaxTuneElbo

\* Step sizes tried in one call before the model stops following it.
MaxTries == 7

tuneOthers ==
  <<cfgVars, last_call, transVars, adviVars, elboVars, sgaVars, nutsVars>>

\* n adaptive steps (lines 199-211) on the abstract family and
\* preconditioner: n more updates of each.
AdaptiveSteps(st, n) == [q |-> st.q + n, s |-> st.s + n, n |-> st.n + n]

\* The number of passes of
\* for (iter_tune = k; iter_tune <= tuning_iterations; ++iter_tune)
RECURSIVE LoopPasses(_)
LoopPasses(k) == IF k > tuning_iterations THEN 0 ELSE 1 + LoopPasses(k + 1)

TuneIterations(st) == AdaptiveSteps(st, LoopPasses(1))

\* The test of line 219.
RegressedInverted(e, best, init) == e > best /\ best > init

Regressed(e, best, init) == e < best /\ best > init

\* tune up to the loop, calc_ELBO returning e0 for the initial family.
TuneBegin(e0) ==
  /\ advi_state = "constructed"
  /\ pc_tune # "loop"
  /\ eta' = Head(EtaSeq)
  /\ eta_sequence' = Tail(EtaSeq)
  /\ elbo_init' = e0
  /\ elbo_best' = -DBL_MAX
  /\ eta_best' = -1
  /\ variational' = 0
  /\ params_prop' = 0
  /\ tune_ret' = -1
  /\ tries' = <<>>
  /\ pc_tune' = "loop"
  /\ UNCHANGED tuneOthers

\* The calc_ELBO of line 179 throws: the error leaves tune.
TuneBeginThrows ==
  /\ advi_state = "constructed"
  /\ pc_tune # "loop"
  /\ eta' = Head(EtaSeq)
  /\ eta_sequence' = Tail(EtaSeq)
  /\ elbo_init' = 0
  /\ elbo_best' = -DBL_MAX
  /\ eta_best' = -1
  /\ variational' = 0
  /\ params_prop' = 0
  /\ tune_ret' = -1
  /\ tries' = <<>>
  /\ pc_tune' = "thrown"
  /\ UNCHANGED tuneOthers

\* One pass of the tuning loop, calc_ELBO returning e after the 50 steps.
TuneTry(e) ==
  /\ pc_tune = "loop"
  /\ Len(tries) < MaxTries
  /\ LET st == TuneIterations([q |-> variational, s |-> params_prop, n |-> 0])
     IN /\ tries' = Append(tries, [eta |-> eta, elbo |-> e, iters |-> st.n,
                                   q0 |-> variational, s0 |-> params_prop])
        /\ IF Regressed(e, elbo_best, elbo_init)
             THEN \* "SUCCESS. USING PREVIOUS ONE"
                  /\ pc_tune' = "returned"
                  /\ tune_ret' = eta_best
                  /\ params_prop' = st.s
                  /\ variational' = 0
                  /\ UNCHANGED <<eta, eta_sequence, elbo_best, eta_best>>
             ELSE IF Len(eta_sequence) > 0
             THEN \* "FAILED.": the next eta
                  /\ elbo_best' = e
                  /\ eta_best' = eta
                  /\ eta' = Head(eta_sequence)
                  /\ eta_sequence' = Tail(eta_sequence)
                  /\ params_prop' = 0
                  /\ variational' = 0
                  /\ UNCHANGED <<pc_tune, tune_ret>>
             ELSE IF e > elbo_init
             THEN \* "SUCCESS. USING CURRENT ONE"
                  /\ eta_best' = eta
                  /\ pc_tune' = "returned"
                  /\ tune_ret' = eta
                  /\ params_prop' = 0
                  /\ variational' = 0
                  /\ UNCHANGED <<eta, eta_sequence, elbo_best>>
             ELSE IF print_stream_
             THEN \* "ALL STEP SIZES FAILED.": return 0 from inside the loop
                  /\ pc_tune' = "returned"
                  /\ tune_ret' = 0
                  /\ params_prop' = st.s
                  /\ variational' = st.q
                  /\ UNCHANGED <<eta, eta_sequence, elbo_best, eta_best>>
             ELSE \* no print stream: the return is skipped, the loop goes on
                  /\ params_prop' = 0
                  /\ variational' = 0
                  /\ UNCHANGED <<pc_tune, tune_ret, eta, eta_sequence, elbo_best,
                                 eta_best>>
  /\ UNCHANGED elbo_init
  /\ UNCHANGED tuneOthers

\* calc_ELBO_grad or calc_ELBO throws during a pass: the error leaves tune.
TuneThrows ==
  /\ pc_tune = "loop"
  /\ pc_tune' = "thrown"
  /\ UNCHANGED <<eta, eta_sequence, elbo_init, elbo_best, eta_best, variational,
                 params_prop, tune_ret, tries>>
  /\ UNCHANGED tuneOthers

(***************************************************************************)
(* ADVI: stochastic_gradient_ascent                                        *)
(***************************************************************************)

\* ELBO values are +/- 2^k, k in 0 .. MaxElboExp; relative differences are
\* then exact multiples of 1 / DeltaDen.
MaxElboExp == 2

DeltaDen == Pow2(MaxElboExp)

ElboVals ==
  {Pow2(k) : k \in 0 .. MaxElboExp} \cup {-Pow2(k) : k \in 0 .. MaxElboExp}

\* Largest max_iterations offered to stochastic_gradient_ascent.
MaxIters == 5

\* Largest eval_elbo an object is constructed with.
MaxEval == 2

\* static_cast<int>(std::max(0.1 * max_iterations / eval_elbo_, 2.0)).
\* eval_elbo_ < 0 makes the quotient negative, so the maximum is 2.0;
\* eval_elbo_ = 0 makes it +infinity, whose conversion to int is undefined
\* (INT_MIN on an x86 build, INT_MAX on a saturating build).
CbSize(maxit, ev) ==
  IF ev > 0 THEN {Max(maxit \div (10 * ev), 2)}
  ELSE IF ev < 0 THEN {2}
  ELSE {INT_MIN, INT_MAX}

\* rel_difference_(prev, curr) = |curr - prev| / |prev|, in units of
\* 1 / DeltaDen (prev is a non-zero ELBO value, so |prev| divides DeltaDen).
rel_difference_(prev, curr) == Abs(curr - prev) * (DeltaDen \div Abs(prev))

\* boost::circular_buffer::push_back: a full buffer drops its oldest element.
PushBack(cb, x, cap) ==
  IF Len(cb) < cap THEN Append(cb, x) ELSE Append(Tail(cb), x)

\* The number of elements of s that are smaller than x / not larger than x.
CountLt(s, x) == Cardinality({i \in 1 .. Len(s) : s[i] < x})

CountLe(s, x) == Cardinality({i \in 1 .. Len(s) : s[i] <= x})

\* circ_buff_median_: the element at index size / 2 (from 0) of the sorted copy.
circ_buff_median_(cb) ==
  LET n == Len(cb) \div 2
  IN CHOOSE x \in {cb[i] : i \in 1 .. Len(cb)} :
       CountLt(cb, x) <= n /\ n < CountLe(cb, x)

\* delta_elbo_ave < tol_rel_obj, the mean kept as the quotient sum / n.
AveBelow(ave, tol) == ave.sum < tol * ave.n

\* The two tests of lines 377 and 383: either one ends the loop.
ConvergedBoth(ave, med, tol) == AveBelow(ave, tol) /\ med < tol

ConvergedNow(ave, med, tol) == AveBelow(ave, tol) \/ med < tol

\* iter_main % eval_elbo_ == 0 for eval_elbo_ # 0 (the C++ remainder
\* truncates toward zero, so the sign of eval_elbo_ does not matter).
IsEvalIter(it, ev) == ev # 0 /\ it % Abs(ev) = 0

EtaArgs == {-1, 0}

\* Tolerances in units of 1 / DeltaDen; the last one is above 1.
TolArgs == {0, DeltaDen - 1, DeltaDen + 1}

MaxItArgs == 0 .. MaxIters

\* The three checks at the head of stochastic_gradient_ascent.
SgaArgsOk(e, tol, maxit) == e >= 0 /\ tol > 0 /\ maxit > 0

sgaOthers == <<cfgVars, transVars, elboVars, tuneVars, nutsVars>>

\* stochastic_gradient_ascent up to the first loop iteration.
SgaBegin(e, tol, maxit) ==
  /\ advi_state = "constructed"
  /\ pc_sga # "loop"
  /\ pc_hmc # "evolve"
  /\ last_call' = Call("stochastic_gradient_ascent", NoSz, NoSz, 0,
                       tol <= 0 \/ maxit <= 0, ~SgaArgsOk(e, tol, maxit))
  /\ sga_eta' = e
  /\ tol_rel_obj' = tol
  /\ max_iterations' = maxit
  /\ iter_main' = 1
  /\ sga_elbo' = 0
  /\ sga_elbo_best' = -DBL_MAX
  /\ sga_elbo_prev' = 0
  /\ delta_elbo' = DBL_MAX
  /\ delta_elbo_ave' = [sum |-> DBL_MAX, n |-> 1]
  /\ delta_elbo_med' = DBL_MAX
  /\ elbo_diff' = <<>>
  /\ n_updates' = 0
  /\ n_evals' = 0
  /\ msg_nonconv' = 0
  /\ IF ~SgaArgsOk(e, tol, maxit)
       THEN /\ pc_sga' = "thrown"
            /\ cb_size' = 0
            /\ do_more_iterations' = FALSE
       ELSE \E c \in CbSize(maxit, eval_elbo_) :
              /\ cb_size' = c
              \* a negative capacity makes the buffer's allocation throw
              /\ pc_sga' = IF c < 0 THEN "thrown" ELSE "loop"
              /\ do_more_iterations' = (c >= 0)
  /\ UNCHANGED <<adviVars, sgaOthers>>

\* The print stream receives the non-convergence message of line 411.
NonConvMsg(it, maxit, stream) == IF it = maxit /\ stream THEN 1 ELSE 0

\* The end of one loop iteration: the max_iterations test and ++iter_main.
SgaEndOfIteration(more) ==
  /\ msg_nonconv' = msg_nonconv + NonConvMsg(iter_main, max_iterations, print_stream_)
  /\ do_more_iterations' = (more /\ iter_main # max_iterations)
  /\ pc_sga' = IF more /\ iter_main # max_iterations THEN "loop" ELSE "returned"
  /\ iter_main' = iter_main + 1

\* calc_ELBO_grad throws: the domain error leaves the function.
SgaGradThrows ==
  /\ pc_sga = "loop"
  /\ pc_sga' = "thrown"
  /\ UNCHANGED <<sga_eta, tol_rel_obj, max_iterations, iter_main, sga_elbo,
                 sga_elbo_best, sga_elbo_prev, delta_elbo, delta_elbo_ave,
                 delta_elbo_med, cb_size, elbo_diff, do_more_iterations,
                 n_updates, n_evals, msg_nonconv>>
  /\ UNCHANGED <<adviVars, last_call, sgaOthers>>

\* One loop iteration that is not an ELBO evaluation.  With eval_elbo_ = 0
\* the remainder is undefined: a build that does not trap yields iter_main.
SgaIterNoEval ==
  /\ pc_sga = "loop"
  /\ eval_elbo_ = 0 \/ ~IsEvalIter(iter_main, eval_elbo_)
  /\ n_updates' = n_updates + 1
  /\ SgaEndOfIteration(do_more_iterations)
  /\ UNCHANGED <<sga_eta, tol_rel_obj, max_iterations, sga_elbo, sga_elbo_best,
                 sga_elbo_prev, delta_elbo, delta_elbo_ave, delta_elbo_med,
                 cb_size, elbo_diff, n_evals>>
  /\ UNCHANGED <<adviVars, last_call, sgaOthers>>

\* With eval_elbo_ = 0 a build that traps on integer division by zero ends
\* the process at the first remainder, after the first gradient update.
SgaRemainderTraps ==
  /\ pc_sga = "loop"
  /\ eval_elbo_ = 0
  /\ n_updates' = n_updates + 1
  /\ pc_sga' = "crashed"
  /\ UNCHANGED <<sga_eta, tol_rel_obj, max_iterations, iter_main, sga_elbo,
                 sga_elbo_best, sga_elbo_prev, delta_elbo, delta_elbo_ave,
                 delta_elbo_med, cb_size, elbo_diff, do_more_iterations,
                 n_evals, msg_nonconv>>
  /\ UNCHANGED <<adviVars, last_call, sgaOthers>>

\* One loop iteration at which calc_ELBO returns e.
SgaIterEval(e) ==
  /\ pc_sga = "loop"
  /\ eval_elbo_ # 0
  /\ IsEvalIter(iter_main, eval_elbo_)
  /\ n_updates' = n_updates + 1
  /\ n_evals' = n_evals + 1
  /\ sga_elbo_prev' = sga_elbo
  /\ sga_elbo' = e
  /\ sga_elbo_best' = IF e > sga_elbo_best THEN e ELSE sga_elbo_best
  /\ delta_elbo' = rel_difference_(e, sga_elbo)
  /\ elbo_diff' = PushBack(elbo_diff, delta_elbo', cb_size)
  /\ delta_elbo_ave' = [sum |-> SumSeq(elbo_diff'), n |-> Len(elbo_diff')]
  /\ delta_elbo_med' = circ_buff_median_(elbo_diff')
  /\ SgaEndOfIteration(~ConvergedNow(delta_elbo_ave', delta_elbo_med', tol_rel_obj))
  /\ UNCHANGED <<sga_eta, tol_rel_obj, max_iterations, cb_size>>
  /\ UNCHANGED <<adviVars, last_call, sgaOthers>>

\* One loop iteration at which calc_ELBO throws its domain error, after
\* elbo_prev = elbo.
SgaElboThrows ==
  /\ pc_sga = "loop"
  /\ eval_elbo_ # 0
  /\ IsEvalIter(iter_main, eval_elbo_)
  /\ n_updates' = n_updates + 1
  /\ pc_sga' = "thrown"
  /\ sga_elbo_prev' = sga_elbo
  /\ UNCHANGED <<sga_eta, tol_rel_obj, max_iterations, iter_main, sga_elbo,
                 sga_elbo_best, delta_elbo, delta_elbo_ave, delta_elbo_med,
                 cb_size, elbo_diff, do_more_iterations, n_evals, msg_nonconv>>
  /\ UNCHANGED <<adviVars, last_call, sgaOthers>>

(***************************************************************************)
(* Unit-metric NUTS: compute_criterion                                     *)
(***************************************************************************)

\* Dimension of the momenta and of rho.
NutsDim == 2

\* Largest component of a momentum.
MaxMomentum == 1

\* Largest component of rho, the sum of the momenta of a trajectory.
MaxRho == 2

Vecs(m) == [1 .. NutsDim -> -m .. m]

MomentumVecs == Vecs(MaxMomentum)

RhoVecs == Vecs(MaxRho)

ZeroVec == [i \in 1 .. NutsDim |-> 0]

\* A point as far as compute_criterion reads it: its momentum p.
CritPoint(p) == [p |-> p]

\* rho - p
VecSub(a, b) == [i \in 1 .. NutsDim |-> a[i] - b[i]]

\* a.dot(b)
RECURSIVE DotUpTo(_, _, _)
DotUpTo(a, b, n) == IF n = 0 THEN 0 ELSE a[n] * b[n] + DotUpTo(a, b, n - 1)

Dot(a, b) == DotUpTo(a, b, NutsDim)

\* The criterion with its inequalities not strict.
compute_criterion_ge(start, finish, rho) ==
  /\ Dot(finish.p, VecSub(rho, finish.p)) >= 0
  /\ Dot(start.p, VecSub(rho, start.p)) >= 0

\* finish.p.dot(rho - finish.p) > 0 && start.p.dot(rho - start.p) > 0
compute_criterion(start, finish, rho) ==
  /\ Dot(finish.p, VecSub(rho, finish.p)) > 0
  /\ Dot(start.p, VecSub(rho, start.p)) > 0

CritIdle ==
  /\ pc_crit = "idle"
  /\ crit_start = CritPoint(ZeroVec)
  /\ crit_finish = CritPoint(ZeroVec)
  /\ crit_rho = ZeroVec
  /\ crit_ret = FALSE
  /\ crit_ret_swapped = FALSE

\* compute_criterion(start, finish, rho), and the same call with start and
\* finish exchanged.
CallComputeCriterion ==
  /\ pc_crit = "idle"
  /\ crit_ret' = compute_criterion(crit_start, crit_finish, crit_rho)
  /\ crit_ret_swapped' = compute_criterion(crit_finish, crit_start, crit_rho)
  /\ pc_crit' = "done"
  /\ UNCHANGED <<crit_start, crit_finish, crit_rho>>
  /\ UNCHANGED <<cfgVars, last_call, transVars, adviVars, elboVars, tuneVars,
                 sgaVars>>

(***************************************************************************)
(* Initial states and specifications                                       *)
(***************************************************************************)

TransIdle ==
  /\ pc_hmc = "idle"
  /\ z = Point(cur_sample.q, 0)
  /\ z_init = z
  /\ z_prop = z
  /\ H0 = ZERO
  /\ i_leap = 0
  /\ h_raw = ZERO
  /\ u_draw = -1
  /\ rejected = FALSE
  /\ ret_sample = cur_sample

SgaIdle ==
  /\ pc_sga = "idle"
  /\ sga_eta = 0
  /\ tol_rel_obj = 0
  /\ max_iterations = 0
  /\ iter_main = 0
  /\ sga_elbo = 0
  /\ sga_elbo_best = 0
  /\ sga_elbo_prev = 0
  /\ delta_elbo = 0
  /\ delta_elbo_ave = [sum |-> 0, n |-> 1]
  /\ delta_elbo_med = 0
  /\ cb_size = 0
  /\ elbo_diff = <<>>
  /\ do_more_iterations = FALSE
  /\ n_updates = 0
  /\ n_evals = 0
  /\ msg_nonconv = 0

NoAdvi ==
  /\ advi_state = "none"
  /\ n_monte_carlo_grad_ = 0
  /\ n_monte_carlo_elbo_ = 0
  /\ eval_elbo_ = 0
  /\ n_posterior_samples_ = 0
  /\ print_stream_ = FALSE

ElboIdle ==
  /\ pc_elbo = "idle"
  /\ entropy_q = 0
  /\ i_mc = 0
  /\ n_monte_carlo_drop = 0
  /\ elbo_acc = 0
  /\ elbo_ret = 0
  /\ n_draws = 0
  /\ valid_energies = <<>>
  /\ n_info_msgs = 0

TuneIdle ==
  /\ pc_tune = "idle"
  /\ eta = 0
  /\ eta_sequence = <<>>
  /\ elbo_init = 0
  /\ elbo_best = 0
  /\ eta_best = -1
  /\ variational = 0
  /\ params_prop = 0
  /\ tune_ret = -1
  /\ tries = <<>>

\* An advi object as the constructor leaves it.
AdviConstructed(nElbo, ev, ps) ==
  /\ advi_state = "constructed"
  /\ n_monte_carlo_grad_ = 1
  /\ n_monte_carlo_elbo_ = nElbo
  /\ eval_elbo_ = ev
  /\ n_posterior_samples_ = 1
  /\ print_stream_ = ps

\* A sampler and, beside it, no advi object yet.
InitStatic ==
  /\ InitCfg
  /\ cur_sample = Sample(0, NegD(Pot(0)), ZERO)
  /\ TransIdle
  /\ NoAdvi /\ ElboIdle /\ TuneIdle /\ SgaIdle /\ CritIdle

NextStatic ==
  \/ \E e \in SzArgs, t \in SzArgs : set_nominal_stepsize_and_T(e, t)
  \/ \E e \in SzArgs, l \in LArgs : set_nominal_stepsize_and_L(e, l)
  \/ \E t \in SzArgs : set_T(t)
  \/ \E e \in SzArgs : set_nominal_stepsize(e)

\* The configuration of a static-HMC sampler under any sequence of setters.
SpecStatic == InitStatic /\ [][NextStatic]_vars

SzArgsSmall == {Sz(-SzOne.m, SzOne.x), Sz(0, 0), SzThreeTenths}

LArgsSmall == {0, 2}

CountArgsSmall == {0, 1}

NextFailFast ==
  \/ \E e \in SzArgsSmall, t \in SzArgsSmall : set_nominal_stepsize_and_T(e, t)
  \/ \E e \in SzArgsSmall, l \in LArgsSmall : set_nominal_stepsize_and_L(e, l)
  \/ \E t \in SzArgsSmall : set_T(t)
  \/ \E e \in SzArgsSmall : set_nominal_stepsize(e)
  \/ \E g \in CountArgsSmall, e \in CountArgsSmall, ev \in CountArgsSmall,
        np \in CountArgsSmall, ps \in BOOLEAN : AdviConstruct(g, e, ev, np, ps)
  \/ \E e \in {0}, tol \in {0, 1}, maxit \in {0, 1} : SgaBegin(e, tol, maxit)

\* Every call that takes configuration: the setters of the sampler, the
\* constructor of advi and the head of stochastic_gradient_ascent.
SpecFailFast == InitStatic /\ [][NextFailFast]_vars

\* A sampler configured by set_nominal_stepsize_and_L(0.3, l), started from
\* a sample at a position of finite potential.
InitTrans ==
  /\ nom_epsilon_ = SzThreeTenths
  /\ L_ \in 1 .. MaxLArg
  /\ T_ = SzMulInt(nom_epsilon_, L_)
  /\ cfg_prev = <<nom_epsilon_, T_, L_>>
  /\ last_call = SetterCall("set_nominal_stepsize_and_L", nom_epsilon_, NoSz, L_, FALSE)
  /\ \E q \in FinitePositions : cur_sample = Sample(q, NegD(Pot(q)), ZERO)
  /\ TransIdle
  /\ NoAdvi /\ ElboIdle /\ TuneIdle /\ SgaIdle /\ CritIdle

NextTrans == TransBegin \/ TransEvolve \/ TransEnd

\* A chain of static-HMC transitions.
SpecTrans == InitTrans /\ [][NextTrans]_vars

\* Largest n_monte_carlo_elbo an object is constructed with.
MaxNElbo == 3

\* An advi object as constructed, beside an idle sampler.
InitAdvi(nElbos, evs) ==
  /\ nom_epsilon_ = SzThreeTenths
  /\ T_ = SzOne
  /\ L_ \in update_L_(T_, nom_epsilon_)
  /\ cfg_prev = <<nom_epsilon_, T_, L_>>
  /\ last_call = Call("advi", NoSz, NoSz, 0, FALSE, FALSE)
  /\ cur_sample = Sample(0, NegD(Pot(0)), ZERO)
  /\ TransIdle
  /\ \E n \in nElbos, ev \in evs, ps \in BOOLEAN : AdviConstructed(n, ev, ps)
  /\ ElboIdle /\ TuneIdle /\ SgaIdle /\ CritIdle

InitELBO == InitAdvi(1 .. MaxNElbo, {1})

NextELBO ==
  \/ \E ent \in Entropies : ElboBegin(ent)
  \/ \E e \in Energies : ElboDrawValid(e)
  \/ ElboDrawInvalid

\* Calls of calc_ELBO, one after the other.
SpecELBO == InitELBO /\ [][NextELBO]_vars

\* The same with the loop of calc_ELBO never abandoned: the call runs on a
\* single thread and every draw returns.
SpecELBOFair == SpecELBO /\ WF_vars(NextELBO)

InitTune == InitAdvi({1}, {1})

NextTune ==
  \/ \E e0 \in TuneElboVals : TuneBegin(e0)
  \/ TuneBeginThrows
  \/ \E e \in TuneElboVals : TuneTry(e)
  \/ TuneThrows

\* Calls of tune, one after the other.
SpecTune == InitTune /\ [][NextTune]_vars

\* eval_elbo is not checked by the constructor: an object can hold any int.
InitSGA == InitAdvi({1}, -1 .. MaxEval)

NextSGA ==
  \/ \E e \in EtaArgs, tol \in TolArgs, maxit \in MaxItArgs : SgaBegin(e, tol, maxit)
  \/ SgaGradThrows
  \/ SgaIterNoEval
  \/ SgaRemainderTraps
  \/ \E e \in ElboVals : SgaIterEval(e)
  \/ SgaElboThrows

\* Calls of stochastic_gradient_ascent, one after the other.
SpecSGA == InitSGA /\ [][NextSGA]_vars

\* The same with the loop never abandoned: every gradient and ELBO
\* evaluation returns or throws.
SpecSGAFair == SpecSGA /\ WF_vars(NextSGA)


\* compute_criterion called once on each triple of arguments.
InitCrit ==
  /\ nom_epsilon_ = SzThreeTenths
  /\ T_ = SzOne
  /\ L_ \in update_L_(T_, nom_epsilon_)
  /\ cfg_prev = <<nom_epsilon_, T_, L_>>
  /\ last_call = SetterCall("base_static_hmc", NoSz, NoSz, 0, FALSE)
  /\ cur_sample = Sample(0, NegD(Pot(0)), ZERO)
  /\ TransIdle
  /\ NoAdvi /\ ElboIdle /\ TuneIdle /\ SgaIdle
  /\ pc_crit = "idle"
  /\ crit_start \in {CritPoint(p) : p \in MomentumVecs}
  /\ crit_finish \in {CritPoint(p) : p \in MomentumVecs}
  /\ crit_rho \in RhoVecs
  /\ crit_ret = FALSE
  /\ crit_ret_swapped = FALSE

NextCrit == CallComputeCriterion

SpecCrit == InitCrit /\ [][NextCrit]_vars

\* Largest max_iterations offered where only the buffer's capacity is read.
MaxItCb == 25

InitCbSize == InitAdvi({1}, 1 .. MaxEval)

NextCbSize ==
  \E tol \in {DeltaDen - 1, DeltaDen + 1}, maxit \in 1 .. MaxItCb :
    SgaBegin(0, tol, maxit)

\* The head of stochastic_gradient_ascent, up to the construction of the
\* circular buffer, for positive max_iterations and eval_elbo.
SpecCbSize == InitCbSize /\ [][NextCbSize]_vars
(***************************************************************************)
(* Properties                                                              *)
(***************************************************************************)

\* A probability on the grid: finite and within [0, 1].
InUnitInterval(a) == IsFinite(a) /\ 0 <= a.v /\ a.v <= Scale

\* min(1, a) for a number a.
MinOne(a) == IF LtD(a, ONE) THEN a ELSE ONE

\* C1: for every static-HMC transition, whatever H0, the final Hamiltonian
\* (NaN counting as +infinity) and the uniform draw, the acceptance
\* statistic of the returned sample lies in [0, 1] and equals
\* min(1, exp(H0 - h)).
C1_AcceptStatInUnitInterval ==
  pc_hmc = "done" =>
    /\ InUnitInterval(ret_sample.accept)
    /\ ret_sample.accept = MinOne(ExpD(SubD(H0, NaNToInf(h_raw))))

\* What does hold: the statistic is as C1 says whenever the trajectory
\* started from a finite Hamiltonian.
AcceptStatWhenH0Finite ==
  (pc_hmc = "done" /\ IsFinite(H0)) =>
    /\ InUnitInterval(ret_sample.accept)
    /\ ret_sample.accept = MinOne(ExpD(SubD(H0, NaNToInf(h_raw))))

\* C2: whenever a transition rejects its proposal, z_ is the snapshot taken
\* after seeding from init_sample and before the first leapfrog step: z_.q
\* is init_sample.q, and the returned sample carries init_sample.q and the
\* log density -V of that point, however many leapfrog steps were taken.
C2_RejectionRestoresSnapshot ==
  /\ pc_hmc \in {"evolve", "done"} => z_init.q = cur_sample.q
  /\ (pc_hmc = "done" /\ rejected) =>
       /\ i_leap = L_
       /\ z = z_init
       /\ z.q = cur_sample.q
       /\ ret_sample.q = cur_sample.q
       /\ ret_sample.lp = NegD(Pot(cur_sample.q))

\* A rejection after at least two leapfrog steps that had moved the point
\* and changed its momentum and its potential.
C2_Witness ==
  /\ pc_hmc = "done"
  /\ rejected
  /\ i_leap >= 2
  /\ z_prop.q # cur_sample.q
  /\ z_prop.p # z_init.p
  /\ z_prop.V # z_init.V

\* C3: with a finite H0, a trajectory whose final Hamiltonian is NaN or
\* +infinity is rejected whatever rand_uniform_() returns, 0 included: the
\* state is rolled back to z_init and the acceptance statistic is 0.
C3_NonFiniteHamiltonianRejected ==
  (pc_hmc = "done" /\ IsFinite(H0) /\ (IsNaN(h_raw) \/ h_raw = PInf)) =>
    /\ rejected
    /\ z = z_init
    /\ ret_sample.accept = ZERO

\* What does hold: such a trajectory is rejected for every draw but 0, and
\* its acceptance statistic is 0 in every case.
NonFiniteHamiltonianRejectedUnlessZeroDraw ==
  (pc_hmc = "done" /\ IsFinite(H0) /\ (IsNaN(h_raw) \/ h_raw = PInf)) =>
    /\ ret_sample.accept = ZERO
    /\ u_draw >= 0
    /\ rejected <=> u_draw > 0

\* C4: after construction and after any sequence of setter calls with any
\* arguments, nom_epsilon_ > 0, T_ > 0 and L_ = max(1, floor(T_ /
\* nom_epsilon_)); a call with a non-positive argument changes none of the
\* three; set_nominal_stepsize_and_L(e, l) with e > 0 and l > 0 ends with
\* T_ = e * l and L_ = l.  (The quotient and the product are those of double
\* arithmetic; a quotient beyond INT_MAX equals no int L_.)
C4_ConfigurationInvariant ==
  /\ SzPos(nom_epsilon_)
  /\ SzPos(T_)
  /\ QuotFitsInt(T_, nom_epsilon_)
  /\ L_ = Max(1, FloorQuot(T_, nom_epsilon_))
  /\ (last_call.op \in SetterOps /\ last_call.bad) =>
       <<nom_epsilon_, T_, L_>> = cfg_prev
  /\ (last_call.op = "set_nominal_stepsize_and_L" /\ ~last_call.bad) =>
       T_ = SzMulInt(last_call.e, last_call.l) /\ L_ = last_call.l

\* What does hold: all of C4 but the value of L_, which is
\* max(1, floor(T_ / nom_epsilon_)) after the constructor or a setter that
\* calls update_L_ has taken effect, as long as the quotient fits an int.
ConfigurationInvariantAfterUpdateL ==
  /\ SzPos(nom_epsilon_)
  /\ SzPos(T_)
  /\ L_ >= 1
  /\ (/\ last_call.op # "set_nominal_stepsize_and_L"
      /\ ~last_call.bad
      /\ QuotFitsInt(T_, nom_epsilon_)) =>
       L_ = Max(1, FloorQuot(T_, nom_epsilon_))
  /\ (last_call.op \in SetterOps /\ last_call.bad) =>
       <<nom_epsilon_, T_, L_>> = cfg_prev
  /\ (last_call.op = "set_nominal_stepsize_and_L" /\ ~last_call.bad) =>
       T_ = SzMulInt(last_call.e, last_call.l) /\ L_ = last_call.l

\* set_nominal_stepsize_and_L has left an L_ that is not
\* floor(T_ / nom_epsilon_), the quotient well within the range of int.
RoundedProductBreaksL ==
  /\ last_call.op = "set_nominal_stepsize_and_L"
  /\ ~last_call.bad
  /\ QuotFitsInt(T_, nom_epsilon_)
  /\ L_ = last_call.l
  /\ FloorQuot(T_, nom_epsilon_) = L_ - 1

\* update_L_ has converted a quotient that no int holds.
QuotientOverflowsInt ==
  /\ last_call.op \in SetterOps \ {"set_nominal_stepsize_and_L"}
  /\ ~last_call.bad
  /\ ~QuotFitsInt(T_, nom_epsilon_)
  /\ L_ \in {1, INT_MAX}

\* C5: every configuration error fails at the call that introduces it: a
\* non-positive count given to the advi constructor, a non-positive
\* tolerance or max_iterations given to stochastic_gradient_ascent and a
\* non-positive step size or integration time given to a setter each raise
\* an error at that call, so nothing later runs with such a value.
C5_ConfigurationErrorsFailFast ==
  /\ last_call.bad => last_call.err
  /\ advi_state = "constructed" =>
       /\ n_monte_carlo_grad_ > 0
       /\ n_monte_carlo_elbo_ > 0
       /\ eval_elbo_ > 0
       /\ n_posterior_samples_ > 0
  /\ pc_sga = "loop" => tol_rel_obj > 0 /\ max_iterations > 0
  /\ SzPos(nom_epsilon_) /\ SzPos(T_)

\* What does hold: a value that is checked never gets through, the setters
\* ignoring it without an error and the other calls throwing.
CheckedConfigurationNeverNonPositive ==
  /\ (last_call.bad /\ last_call.op = "stochastic_gradient_ascent") => last_call.err
  /\ advi_state = "constructed" =>
       /\ n_monte_carlo_grad_ > 0
       /\ n_monte_carlo_elbo_ > 0
       /\ n_posterior_samples_ > 0
  /\ pc_sga = "loop" => tol_rel_obj > 0 /\ max_iterations > 0
  /\ SzPos(nom_epsilon_) /\ SzPos(T_)

\* The safety part of C6: the draws of one call, its result and its failure.
ElboBounded ==
  /\ n_draws = i_mc + n_monte_carlo_drop
  /\ n_draws <= 2 * n_monte_carlo_elbo_ - 1
  /\ pc_elbo = "loop" =>
       i_mc < n_monte_carlo_elbo_ /\ n_monte_carlo_drop < n_monte_carlo_elbo_
  /\ pc_elbo = "returned" =>
       /\ Len(valid_energies) = n_monte_carlo_elbo_
       /\ i_mc = n_monte_carlo_elbo_
       /\ elbo_ret = SumSeq(valid_energies) + n_monte_carlo_elbo_ * entropy_q
  /\ pc_elbo = "failed" =>
       /\ n_monte_carlo_drop = n_monte_carlo_elbo_
       /\ (i_mc = 0 => n_draws = n_monte_carlo_elbo_)

\* C6: calc_ELBO always terminates, whatever the valid and invalid
\* evaluations: it returns (the sum of exactly n_monte_carlo_elbo_ finite
\* values) / n_monte_carlo_elbo_ + entropy, or fails when the drop counter
\* reaches n_monte_carlo_elbo_; it makes at most 2 * n_monte_carlo_elbo_ - 1
\* draws, and fails after exactly n_monte_carlo_elbo_ draws when every draw
\* is invalid.
C6_CalcElboTerminates ==
  /\ []ElboBounded
  /\ (pc_elbo = "loop") ~> (pc_elbo \in {"returned", "failed"})

\* A call that returned after the largest number of draws, with at least one
\* and fewer than n_monte_carlo_elbo_ of them dropped.
C6_Witness ==
  /\ pc_elbo = "returned"
  /\ n_monte_carlo_elbo_ >= 2
  /\ n_draws = 2 * n_monte_carlo_elbo_ - 1
  /\ n_monte_carlo_drop = n_monte_carlo_elbo_ - 1

\* A call that failed on a model invalid on every draw.
ElboAllInvalidFails ==
  pc_elbo = "failed" /\ i_mc = 0 /\ n_draws = n_monte_carlo_elbo_ /\ n_draws >= 2

\* C7: calc_ELBO fails only when all attempts of the estimate are dropped:
\* no draw of a failing call was evaluated, i = 0 when it fails.
C7_FailsOnlyWhenAllDropped ==
  pc_elbo = "failed" => i_mc = 0 /\ valid_energies = <<>>

\* C7 as the code has it: calc_ELBO fails when the drop counter reaches
\* n_monte_carlo_elbo_, with any number 0 .. n_monte_carlo_elbo_ - 1 of
\* draws evaluated by then.
C7_FailsWhenDropCounterReachesLimit ==
  /\ pc_elbo = "failed" =>
       /\ n_monte_carlo_drop = n_monte_carlo_elbo_
       /\ i_mc = Len(valid_energies)
       /\ i_mc \in 0 .. n_monte_carlo_elbo_ - 1
  /\ (pc_elbo # "failed" /\ pc_elbo # "idle") =>
       n_monte_carlo_drop < n_monte_carlo_elbo_

\* A failing call in which draws were evaluated.
C7_Witness ==
  /\ pc_elbo = "failed"
  /\ i_mc > 0
  /\ i_mc = n_monte_carlo_elbo_ - 1

\* The step sizes tried so far are a prefix of the sequence, each tried
\* once with 50 adaptive iterations.
TriedInOrderOnce ==
  /\ Len(tries) <= Len(EtaSeq)
  /\ \A k \in 1 .. Len(tries) :
       tries[k].eta = EtaSeq[k] /\ tries[k].iters = tuning_iterations

\* The pass that tried the last step size of the sequence ended the call.
ExhaustedListReturns ==
  Len(tries) >= Len(EtaSeq) =>
    /\ pc_tune = "returned"
    /\ tune_ret # tries[Len(tries) - 1].eta =>
         tune_ret = IF tries[Len(tries)].elbo > elbo_init
                      THEN EtaSeq[Len(EtaSeq)] ELSE 0

\* C8: tune always terminates after trying 1.0, 0.5, 0.1, 0.05, 0.01 in
\* that order, each at most once, with 50 adaptive iterations each; once the
\* list is exhausted it returns 0.01 if the final ELBO exceeds elbo_init and
\* 0 otherwise, with or without a print stream and for every sequence of
\* ELBO values.
C8_TuneTriesEachStepSizeOnce ==
  pc_tune \in {"loop", "returned"} => TriedInOrderOnce /\ ExhaustedListReturns

\* What does hold: the same when a print stream is present.
TuneTriesEachStepSizeOnceWithPrintStream ==
  (print_stream_ /\ pc_tune \in {"loop", "returned"}) =>
    TriedInOrderOnce /\ ExhaustedListReturns

\* The highest ELBO measured before the k-th try.
RECURSIVE BestBefore(_)
BestBefore(k) ==
  IF k <= 1 THEN -DBL_MAX ELSE Max(tries[k - 1].elbo, BestBefore(k - 1))

\* The k-th try measured an ELBO worse than the best so far, that best
\* better than the initial one.
RegressionAt(k) ==
  tries[k].elbo < BestBefore(k) /\ BestBefore(k) > elbo_init

\* C9: a non-zero step size returned by tune is one whose measured ELBO is
\* the highest of all step sizes tried in the call; tune stops at the first
\* try whose ELBO is worse than the best so far (that best above elbo_init)
\* and returns the step size tried before it.
C9_TuningMonotonicity ==
  /\ (pc_tune = "returned" /\ tune_ret # 0) =>
       \E k \in 1 .. Len(tries) :
         /\ tries[k].eta = tune_ret
         /\ \A j \in 1 .. Len(tries) : tries[j].elbo <= tries[k].elbo
  /\ pc_tune \in {"loop", "returned"} =>
       \A k \in 1 .. Len(tries) :
         RegressionAt(k) =>
           /\ k = Len(tries)
           /\ pc_tune = "returned"
           /\ tune_ret = tries[k - 1].eta

\* tune stopped at a regression on its fourth step size or later, after an
\* ELBO that was no better than the initial one.
C9_Witness ==
  /\ pc_tune = "returned"
  /\ Len(tries) >= 4
  /\ RegressionAt(Len(tries))
  /\ tune_ret = tries[Len(tries) - 1].eta
  /\ tries[1].elbo <= elbo_init
  /\ tries[2].elbo < tries[Len(tries) - 1].elbo

\* tune returned the last step size of an exhausted list.
TuneReturnsCurrent ==
  /\ pc_tune = "returned"
  /\ Len(tries) = Len(EtaSeq)
  /\ tune_ret = EtaSeq[Len(EtaSeq)]

\* The mean of the buffered relative differences is below tol_rel_obj.
MeanBelowTol ==
  Len(elbo_diff) > 0 /\ SumSeq(elbo_diff) < tol_rel_obj * Len(elbo_diff)

\* Their median is below tol_rel_obj: more than half of them, rounded down,
\* are.
MedianBelowTol ==
  Len(elbo_diff) > 0 /\ CountLt(elbo_diff, tol_rel_obj) > Len(elbo_diff) \div 2

\* The call was let past the three argument checks.
SgaRunning ==
  /\ pc_sga \in {"loop", "returned", "thrown", "crashed"}
  /\ SgaArgsOk(sga_eta, tol_rel_obj, max_iterations)

\* At most max_iterations updates; the loop goes on only while no ELBO
\* evaluation has converged, and ends early only at one that has.
SgaStopsAtFirstConvergence ==
  /\ SgaRunning => n_updates <= max_iterations
  /\ (pc_sga \in {"loop", "returned"} /\ ~SgaRunning) => n_updates = 0
  /\ (SgaRunning /\ pc_sga = "loop") =>
       /\ n_updates = iter_main - 1
       /\ n_updates < max_iterations
       /\ n_evals > 0 => ~(MeanBelowTol \/ MedianBelowTol)
  /\ (SgaRunning /\ pc_sga = "returned" /\ n_updates < max_iterations) =>
       /\ IsEvalIter(n_updates, eval_elbo_)
       /\ n_evals > 0
       /\ MeanBelowTol \/ MedianBelowTol

SgaReportsNonConvergence ==
  /\ pc_sga = "returned"
  /\ n_updates = max_iterations
  /\ n_evals >= 2
  /\ ~(MeanBelowTol \/ MedianBelowTol)
  /\ msg_nonconv = 1

\* C11: no absorbed numeric error is silent: every draw dropped by calc_ELBO
\* writes exactly one diagnostic message, with or without a print stream.
\* (The other half, a static-HMC rejection on a NaN Hamiltonian, is
\* NaNRejectionWritesDiagnostic.)
C11_DroppedDrawsWriteDiagnostic ==
  pc_elbo \in {"loop", "returned", "failed"} => n_info_msgs = n_monte_carlo_drop

\* The static-HMC half of C11: a trajectory rejected because its final
\* Hamiltonian was NaN writes one diagnostic line.
NaNRejectionWritesDiagnostic ==
  (pc_hmc = "done" /\ rejected /\ IsNaN(h_raw)) => TransDiagnosticLines(h_raw) = 1

\* What does hold: with a print stream every dropped draw writes one
\* message, and without one none is written.
DroppedDrawsWriteToPrintStream ==
  pc_elbo \in {"loop", "returned", "failed"} =>
    n_info_msgs = IF print_stream_ THEN n_monte_carlo_drop ELSE 0

\* p . (rho - p), written out component by component.
TurnProduct(p, rho) == SumSeq([i \in 1 .. NutsDim |-> p[i] * rho[i] - p[i] * p[i]])

\* C12: compute_criterion(start, finish, rho) is true iff
\* p_start . (rho - p_start) > 0 and p_finish . (rho - p_finish) > 0; it is
\* symmetric under exchanging start and finish; it is false for a
\* single-state trajectory, rho = p_start = p_finish.
C12_UTurnCriterion ==
  pc_crit = "done" =>
    /\ crit_ret <=> (/\ TurnProduct(crit_start.p, crit_rho) > 0
                     /\ TurnProduct(crit_finish.p, crit_rho) > 0)
    /\ crit_ret = crit_ret_swapped
    /\ (crit_rho = crit_start.p /\ crit_start.p = crit_finish.p) => ~crit_ret

\* The criterion evaluated on a single-state trajectory of non-zero momentum.
C12_Witness ==
  /\ pc_crit = "done"
  /\ crit_rho = crit_start.p
  /\ crit_start.p = crit_finish.p
  /\ crit_rho # ZeroVec
  /\ ~crit_ret

\* The criterion true on two different end momenta.
CriterionTrue ==
  pc_crit = "done" /\ crit_ret /\ crit_start.p # crit_finish.p

\* The criterion false because of only one of its two ends.
CriterionFalseAtOneEnd ==
  /\ pc_crit = "done"
  /\ ~crit_ret
  /\ TurnProduct(crit_start.p, crit_rho) > 0
  /\ TurnProduct(crit_finish.p, crit_rho) <= 0

\* C13: at every ELBO evaluation of stochastic_gradient_ascent the relative
\* difference pushed into the buffer is |elbo - elbo_prev| / |elbo_prev|:
\* the denominator is the ELBO of the previous evaluation.  (Stated from the
\* second evaluation on, where elbo_prev is not the initial 0.)
C13_DeltaRelativeToPreviousElbo ==
  (pc_sga \in {"loop", "returned"} /\ n_evals >= 2) =>
    /\ delta_elbo =
         Abs(sga_elbo - sga_elbo_prev) * (DeltaDen \div Abs(sga_elbo_prev))
    /\ elbo_diff[Len(elbo_diff)] = delta_elbo

\* What does hold: the denominator is the ELBO just computed, from the
\* first evaluation on.
DeltaRelativeToCurrentElbo ==
  (pc_sga \in {"loop", "returned"} /\ n_evals >= 1) =>
    /\ delta_elbo = Abs(sga_elbo - sga_elbo_prev) * (DeltaDen \div Abs(sga_elbo))
    /\ elbo_diff[Len(elbo_diff)] = delta_elbo

\* ceil(a / b) for positive b.
CeilDiv(a, b) == (a + b - 1) \div b

\* C14: for positive max_iterations and eval_elbo the capacity of the
\* circular buffer is max(ceil(0.1 * max_iterations / eval_elbo), 2).
C14_BufferCapacityIsCeiling ==
  (pc_sga = "loop" /\ max_iterations > 0 /\ eval_elbo_ > 0) =>
    cb_size = Max(CeilDiv(max_iterations, 10 * eval_elbo_), 2)

\* What does hold: the quotient is truncated, not rounded up.
BufferCapacityIsTruncation ==
  (pc_sga = "loop" /\ max_iterations > 0 /\ eval_elbo_ > 0) =>
    /\ cb_size >= 2
    /\ cb_size * 10 * eval_elbo_ <= Max(max_iterations, 20 * eval_elbo_)
    /\ (cb_size + 1) * 10 * eval_elbo_ > max_iterations

\* Every step size tried so far started its iterations from the initial
\* family, the preconditioner zero.
TriesStartFresh ==
  \A k \in 1 .. Len(tries) : tries[k].q0 = 0 /\ tries[k].s0 = 0

\* C15: tune leaks no tuned state: each step size tried starts its 50
\* iterations from Q(cont_params_) with a zero preconditioner, and on every
\* return path, a chosen step size or the return of 0, the family left to
\* run, which passes it on to stochastic_gradient_ascent, is Q(cont_params_).
C15_TuneLeaksNoTunedState ==
  /\ pc_tune \in {"loop", "returned"} => TriesStartFresh
  /\ pc_tune = "returned" => variational = 0

\* What does hold: the tries start fresh, and the family is fresh on every
\* return of a step size; the return of 0 leaves the family 50 updates away
\* from Q(cont_params_).
TuneLeaksOnlyWhenAllFailed ==
  /\ pc_tune \in {"loop", "returned"} => TriesStartFresh
  /\ (pc_tune = "returned" /\ tune_ret # 0) => variational = 0
  /\ (pc_tune = "returned" /\ tune_ret = 0) =>
       /\ print_stream_
       /\ Len(tries) = Len(EtaSeq)
       /\ variational = tuning_iterations

====
